---- MODULE Spec2Model ----
(***************************************************************************)
(* A model of novel_crawler.py: the Chapter Ordering Engine                *)
(* (extract_chapter_number, process_and_sort_chapters), the location       *)
(* de-duplication of crawl_index_page, and the Acquisition Orchestrator    *)
(* (crawl_multiple_chapters) with its Progress Store (save_progress), the  *)
(* Link Classifier (is_likely_chapter_link) and the Chapter Index Resolver *)
(* (crawl_index_page).                                                     *)
(*                                                                         *)
(* Seven specifications: OrderSpec (the Ordering Engine on its own), Spec  *)
(* and FairSpec (one run on a site of NumChapters pages), LongSpec (the    *)
(* walk along a chain of ChainLen pages), ClassifierSpec (the Link         *)
(* Classifier on its own), IndexSpec (one call of crawl_index_page) and    *)
(* ChapterSpec (one call of crawl_chapter on a page text).                 *)
(*                                                                         *)
(* Strings are sequences of one-character strings, so that the regular     *)
(* expressions of the source are computed on the characters; the page      *)
(* suffix ".html" is kept as one token.  A CJK character is written as its *)
(* pinyin: "di" U+7B2C, "zhang" U+7AE0, "jie" U+8282, "xu" U+5E8F,         *)
(* "yi" "er" "san" ... "shi" "bai" "qian" "wan" "ling" the numerals,       *)
(* "qian2" "yan" U+524D U+8A00, "xie" "zi" U+6954 U+5B50, "jian" "jie4"    *)
(* U+7B80 U+4ECB, "hui" U+56DE, "deng" "lu" U+767B U+5F55 and the other    *)
(* words of BlockWords and SpecialNames.                                   *)
(***************************************************************************)
EXTENDS Integers, Sequences, FiniteSets, TLC

\* ------------------------------------------------------------------------
\* Bounds of the model
\* ------------------------------------------------------------------------

\* longest candidate sequence handed to the Ordering Engine
MaxLen == 2

\* chapters of the site that is crawled
NumChapters == 3

\* largest chapter budget (num_chapters) of a run; 0 means no limit
MaxBudget == 2

\* largest limiter size (concurrency) of a run
MaxConcurrency == 2

\* Python's None for an optional int (every parsed number is >= 0)
None == -1

\* ------------------------------------------------------------------------
\* Characters and numbers
\* ------------------------------------------------------------------------

Min(S) == CHOOSE x \in S : \A y \in S : x <= y

Max(S) == CHOOSE x \in S : \A y \in S : x >= y

DigitChars == <<"0", "1", "2", "3", "4", "5", "6", "7", "8", "9">>

IsDigit(c) == \E i \in 1..10 : DigitChars[i] = c

DigitVal(c) == (CHOOSE i \in 1..10 : DigitChars[i] = c) - 1

\* int(s) for a non-empty sequence of digits
RECURSIVE ParseInt(_)
ParseInt(s) ==
    IF Len(s) = 0 THEN 0
    ELSE 10 * ParseInt(SubSeq(s, 1, Len(s) - 1)) + DigitVal(s[Len(s)])

\* the numerals of ch_num_map
CJKNumerals == {"yi", "er", "san", "si", "wu", "liu", "qi", "ba", "jiu", "shi",
                "bai", "qian", "wan", "ling"}

ch_num_map(c) ==
    CASE c = "yi" -> 1 [] c = "er" -> 2 [] c = "san" -> 3 [] c = "si" -> 4
      [] c = "wu" -> 5 [] c = "liu" -> 6 [] c = "qi" -> 7 [] c = "ba" -> 8
      [] c = "jiu" -> 9 [] c = "shi" -> 10 [] c = "bai" -> 100
      [] c = "qian" -> 1000 [] c = "wan" -> 10000 [] c = "ling" -> 0

\* \s of the regular expressions
IsSpace(c) == c = " "

\* number of consecutive characters of s, from position i on, that satisfy
\* the class (a greedy  [class]*  starting at i)
RunLen(s, i, InClass(_)) ==
    CHOOSE k \in 0..(Len(s) - i + 1) :
        /\ \A m \in 0..(k - 1) : InClass(s[i + m])
        /\ i + k > Len(s) \/ ~InClass(s[i + k])

\* str.strip()
RECURSIVE LStrip(_)
LStrip(s) == IF Len(s) > 0 /\ IsSpace(s[1]) THEN LStrip(Tail(s)) ELSE s

RECURSIVE RStrip(_)
RStrip(s) ==
    IF Len(s) > 0 /\ IsSpace(s[Len(s)])
    THEN RStrip(SubSeq(s, 1, Len(s) - 1)) ELSE s

Strip(s) == RStrip(LStrip(s))

\* sub in s  (substring test)
Contains(s, sub) ==
    \E i \in 1..(Len(s) - Len(sub) + 1) : SubSeq(s, i, i + Len(sub) - 1) = sub

EndsWith(s, sub) ==
    Len(s) >= Len(sub) /\ SubSeq(s, Len(s) - Len(sub) + 1, Len(s)) = sub

\* ------------------------------------------------------------------------
\* extract_chapter_number
\* ------------------------------------------------------------------------

InMarkerClass(c) == c \in CJKNumerals \/ IsDigit(c)

\* re.search(r'di([numerals and digits]+)zhang', title) matches at i: di, a
\* non-empty maximal run of numerals, then zhang
MarkerAt(t, i) ==
    /\ t[i] = "di"
    /\ RunLen(t, i + 1, InMarkerClass) >= 1
    /\ i + 1 + RunLen(t, i + 1, InMarkerClass) <= Len(t)
    /\ t[i + 1 + RunLen(t, i + 1, InMarkerClass)] = "zhang"

\* MarkerValue with no value for a numeral that is not parsed
MarkerValue_absent(num_str) ==
    IF \A k \in 1..Len(num_str) : IsDigit(num_str[k]) THEN ParseInt(num_str)
    ELSE IF Len(num_str) = 1 /\ num_str[1] \in CJKNumerals
         THEN ch_num_map(num_str[1])
    ELSE IF Len(num_str) = 2 /\ num_str[1] = "shi" /\ num_str[2] \in CJKNumerals
         THEN 10 + ch_num_map(num_str[2])
    ELSE None

\* lines 281-302: the value of the numeral between di and zhang
MarkerValue(num_str) ==
    IF \A k \in 1..Len(num_str) : IsDigit(num_str[k]) THEN ParseInt(num_str)
    ELSE IF Len(num_str) = 1 /\ num_str[1] \in CJKNumerals
         THEN ch_num_map(num_str[1])
    ELSE IF Len(num_str) = 2 /\ num_str[1] = "shi" /\ num_str[2] \in CJKNumerals
         THEN 10 + ch_num_map(num_str[2])
    ELSE 999

IsUnitMark(c) == c \in {"zhang", "jie"}

\* re.search(r'(\d+)[zhang jie]', title) matches at i: a maximal run of
\* digits from i, then zhang or jie
DigitsUnitAt(t, i) ==
    /\ IsDigit(t[i])
    /\ i + RunLen(t, i, IsDigit) <= Len(t)
    /\ IsUnitMark(t[i + RunLen(t, i, IsDigit)])

InLeadClass(c) == IsSpace(c) \/ IsDigit(c) \/ c = "."

IsLeadEnd(c) == IsSpace(c) \/ c \in {".", ":"}

\* re.search(r'^[\s\d\.]*(\d+)[\s\.\:]', title) with a prefix of j characters:
\* the prefix is in the class, then digits up to a separator
LeadAt(t, j) ==
    /\ \A k \in 1..j : InLeadClass(t[k])
    /\ j + 1 <= Len(t) /\ IsDigit(t[j + 1])
    /\ j + 1 + RunLen(t, j + 1, IsDigit) <= Len(t)
    /\ IsLeadEnd(t[j + 1 + RunLen(t, j + 1, IsDigit)])

extract_chapter_number(title) ==
    LET marks == {i \in 1..Len(title) : MarkerAt(title, i)}
        units == {i \in 1..Len(title) : DigitsUnitAt(title, i)}
        leads == {j \in 0..Len(title) : LeadAt(title, j)}
    IN  IF marks # {}
        THEN LET i == Min(marks)
             IN  MarkerValue(SubSeq(title, i + 1,
                                    i + RunLen(title, i + 1, InMarkerClass)))
        ELSE IF units # {}
        THEN LET i == Min(units)
             IN  ParseInt(SubSeq(title, i, i + RunLen(title, i, IsDigit) - 1))
        ELSE IF leads # {}
        \* the greedy prefix is the longest one that still lets the rest match
        THEN LET j == Max(leads)
             IN  ParseInt(SubSeq(title, j + 1,
                                 j + RunLen(title, j + 1, IsDigit)))
        ELSE None

\* ------------------------------------------------------------------------
\* The inputs of the Ordering Engine
\* ------------------------------------------------------------------------

\* titles: "di yi zhang" (chapter one), "di 3 zhang", "Intro", "xu zhang"
\* (a preface), "di er bai zhang" (a numeral extract_chapter_number does
\* not parse)
Titles ==
    { <<"di", "yi", "zhang">>,
      <<"di", "3", "zhang">>,
      <<"I", "n", "t", "r", "o">>,
      <<"xu", "zhang">>,
      <<"di", "er", "bai", "zhang">> }

\* locations: /3.html, /5.html, /1000000.html, and /a.html with no number
Urls ==
    { <<"/", "3", ".html">>,
      <<"/", "5", ".html">>,
      <<"/", "1", "0", "0", "0", "0", "0", "0", ".html">>,
      <<"/", "a", ".html">> }

Candidates == [title : Titles, url : Urls]

SeqsUpTo(S, n) == UNION {[1..k -> S] : k \in 0..n}

\* ------------------------------------------------------------------------
\* The site that is crawled
\* ------------------------------------------------------------------------

\* the page of chapter i is /i.html; the listing page is /
ChapterUrl(i) == <<"/", DigitChars[i + 1], ".html">>

ListingUrl == <<"/">>

ChapterUrls == {ChapterUrl(i) : i \in 1..NumChapters}

SiteUrls == ChapterUrls \cup {ListingUrl}

\* the title of a page: "di i zhang" for chapter i
TitleOf(u) ==
    IF u = ListingUrl THEN <<"I", "n", "t", "r", "o">>
    ELSE <<"di">> \o SubSeq(u, 2, Len(u) - 1) \o <<"zhang">>

SiteTitles == {TitleOf(u) : u \in SiteUrls}

\* the entry of the listing page for a chapter
Candidate(u) == [title |-> TitleOf(u), url |-> u]

\* an absent reference: Python's "" or None
NoUrl == <<>>

\* ------------------------------------------------------------------------
\* process_and_sort_chapters
\* ------------------------------------------------------------------------

\* the value the sort key takes for an absent url_num or chapter_num
AbsentKey == 999999

\* number of consecutive characters of s, from position i backwards, that
\* satisfy the class
RunLenBack(s, i, InClass(_)) ==
    CHOOSE k \in 0..i :
        /\ \A m \in 0..(k - 1) : InClass(s[i - m])
        /\ i - k < 1 \/ ~InClass(s[i - k])

\* re.search(r'/(\d+)\.html$', url): the digits between the last "/" and the
\* closing ".html", None when the url has no such ending
url_num_of(url) ==
    LET e == Len(url)
        k == IF e >= 2 THEN RunLenBack(url, e - 1, IsDigit) ELSE 0
    IN  IF e >= 3 /\ url[e] = ".html" /\ k >= 1 /\ e - 1 - k >= 1
           /\ url[e - 1 - k] = "/"
        THEN ParseInt(SubSeq(url, e - k, e - 1))
        ELSE None

IsPreface(title) ==
    \/ Contains(title, <<"xu">>)
    \/ Contains(title, <<"qian2", "yan">>)
    \/ Contains(title, <<"xie", "zi">>)
    \/ Contains(title, <<"jian", "jie4">>)

FirstMark == <<"di", "yi", "zhang">>

SecondMark == <<"di", "er", "zhang">>

ThirdMark == <<"di", "san", "zhang">>

sequence_of(title, url_num, chapter_num) ==
    IF IsPreface(title) THEN 0
    ELSE IF url_num = 1 \/ chapter_num = 1 \/ Contains(title, FirstMark) THEN 1
    ELSE IF url_num = 2 \/ chapter_num = 2 \/ Contains(title, SecondMark) THEN 2
    ELSE IF url_num = 3 \/ chapter_num = 3 \/ Contains(title, ThirdMark) THEN 3
    ELSE 0

\* Python's truth value of an optional int: None and 0 are false
Truthy(n) == n # None /\ n # 0

\* priority_of without the rule for prefaces
priority_of_no_preface(title, url_num, chapter_num) ==
    IF url_num = 1 \/ (Contains(title, FirstMark) /\ url_num = None) THEN 1000
    ELSE IF url_num = 2 \/ (Contains(title, SecondMark) /\ url_num = None) THEN 900
    ELSE IF url_num = 3 \/ (Contains(title, ThirdMark) /\ url_num = None) THEN 800
    ELSE IF Truthy(url_num) /\ url_num < 10 THEN 700 - url_num
    ELSE IF Truthy(url_num) /\ url_num < 100 THEN 400 - url_num
    ELSE IF Truthy(chapter_num) /\ chapter_num < 100 THEN 300 - chapter_num
    ELSE 0

\* lines 363-382
priority_of(title, url_num, chapter_num) ==
    IF url_num = 1 \/ (Contains(title, FirstMark) /\ url_num = None) THEN 1000
    ELSE IF url_num = 2 \/ (Contains(title, SecondMark) /\ url_num = None) THEN 900
    ELSE IF url_num = 3 \/ (Contains(title, ThirdMark) /\ url_num = None) THEN 800
    ELSE IF Truthy(url_num) /\ url_num < 10 THEN 700 - url_num
    ELSE IF IsPreface(title) THEN 500
    ELSE IF Truthy(url_num) /\ url_num < 100 THEN 400 - url_num
    ELSE IF Truthy(chapter_num) /\ chapter_num < 100 THEN 300 - chapter_num
    ELSE 0

\* F(v), with v evaluated once before F uses it
Bind(v, F(_)) == CHOOSE y \in {F(x) : x \in {v}} : TRUE

\* what the loop of process_and_sort_chapters computes from one chapter's
\* title and url
info_of(raw_title, url) ==
    Bind(Strip(raw_title), LAMBDA title :
    Bind(url_num_of(url), LAMBDA url_num :
    Bind(extract_chapter_number(title), LAMBDA chapter_num :
        [chapter_num |-> chapter_num,
         url_num |-> url_num,
         sequence |-> sequence_of(title, url_num, chapter_num),
         priority |-> priority_of(title, url_num, chapter_num)])))

\* info_of, tabulated over the titles and urls of the model (@@ makes TLC
\* hold the table as an explicit function, computed once)
InfoTable ==
    [c \in [title : Titles \cup SiteTitles, url : Urls \cup SiteUrls] |->
        info_of(c.title, c.url)] @@ <<>>

\* the entry of chapters_with_info for the chapter at position i
chapter_info(chapters, i) ==
    LET info == InfoTable[[title |-> chapters[i].title, url |-> chapters[i].url]]
    IN  [original_index |-> i,
         chapter_num |-> info.chapter_num,
         url_num |-> info.url_num,
         sequence |-> info.sequence,
         priority |-> info.priority]

\* sort_key with candidates of equal evidence in reverse input order
sort_key_reversed_ties(x) ==
    << IF x.url_num # None THEN x.url_num ELSE AbsentKey,
       IF x.chapter_num # None THEN x.chapter_num ELSE AbsentKey,
       0 - x.priority,
       x.sequence,
       0 - x.original_index >>

\* sort_key with the title's number before the url's number
sort_key_title_first(x) ==
    << IF x.chapter_num # None THEN x.chapter_num ELSE AbsentKey,
       IF x.url_num # None THEN x.url_num ELSE AbsentKey,
       0 - x.priority,
       x.sequence,
       x.original_index >>

\* the key of chapters_with_info.sort
sort_key(x) ==
    << IF x.url_num # None THEN x.url_num ELSE AbsentKey,
       IF x.chapter_num # None THEN x.chapter_num ELSE AbsentKey,
       0 - x.priority,
       x.sequence,
       x.original_index >>

\* Python's order on tuples of ints of the same length
RECURSIVE TupleLess(_, _)
TupleLess(a, b) ==
    IF Len(a) = 0 THEN FALSE
    ELSE IF a[1] # b[1] THEN a[1] < b[1]
    ELSE TupleLess(Tail(a), Tail(b))

\* process_and_sort_chapters sorting with reverse=True
process_and_sort_descending(chapters) ==
    LET n == Len(chapters)
        key == [i \in 1..n |-> sort_key(chapter_info(chapters, i))]
        rank == [i \in 1..n |->
                    1 + Cardinality({j \in 1..n : TupleLess(key[i], key[j])})]
    IN  [r \in 1..n |-> chapters[CHOOSE i \in 1..n : rank[i] = r]]

\* list.sort(key=...): the keys end in original_index, so they are pairwise
\* distinct and the sorted list is the one that puts each entry after the
\* entries with a smaller key
process_and_sort_chapters(chapters) ==
    LET n == Len(chapters)
        key == [i \in 1..n |-> sort_key(chapter_info(chapters, i))]
        rank == [i \in 1..n |->
                    1 + Cardinality({j \in 1..n : TupleLess(key[j], key[i])})]
    IN  [r \in 1..n |-> chapters[CHOOSE i \in 1..n : rank[i] = r]]

\* crawl_index_page without its step 7
unique_chapters_kept(all_chapters) == all_chapters

\* crawl_index_page, step 7: keep the first chapter of every url
RECURSIVE unique_chapters(_)
unique_chapters(all_chapters) ==
    IF Len(all_chapters) = 0 THEN <<>>
    ELSE LET n == Len(all_chapters)
             head == unique_chapters(SubSeq(all_chapters, 1, n - 1))
         IN  IF \E k \in 1..Len(head) : head[k].url = all_chapters[n].url
             THEN head
             ELSE Append(head, all_chapters[n])

\* ------------------------------------------------------------------------
\* is_likely_chapter_link (inside crawl_index_page)
\* ------------------------------------------------------------------------

\* line 739: "deng lu", "zhu ce", "shou ye", "deng lu4", "bang zhu4" and
\* "she zhi" stand for the six two-character words of the list
BlockWords ==
    { <<"deng", "lu">>, <<"zhu", "ce">>, <<"shou", "ye">>, <<"deng", "lu4">>,
      <<"bang", "zhu4">>, <<"she", "zhi">> }

\* line 754: the eight two-character names of special chapters
SpecialNames ==
    { <<"xu", "yan">>, <<"xu", "zhang">>, <<"qian2", "yan">>, <<"yin", "yan">>,
      <<"xie", "zi">>, <<"wei", "sheng">>, <<"hou", "ji">>, <<"fan", "wai">> }

\* re.search(r'di.+[zhang jie hui]', title): a "di", at least one character,
\* then one of the three unit characters
HasMarker(title) ==
    \E i \in 1..Len(title) : \E j \in (i + 2)..Len(title) :
        title[i] = "di" /\ title[j] \in {"zhang", "jie", "hui"}

\* re.search(r'^\d+\.?\s*\D+', title): the title begins with digits and a
\* character that is not a digit follows them (the optional dot and the
\* spaces may match nothing, the dot or space is then the \D)
LeadsWithNumber(title) ==
    LET k == RunLen(title, 1, IsDigit)
    IN  k >= 1 /\ k < Len(title)

\* re.search(r'/\d+\.html$', href)
HasNumericPath(href) ==
    LET e == Len(href)
        k == IF e >= 2 THEN RunLenBack(href, e - 1, IsDigit) ELSE 0
    IN  e >= 3 /\ href[e] = ".html" /\ k >= 1 /\ e - 1 - k >= 1
        /\ href[e - 1 - k] = "/"

\* is_likely_chapter_link with the test of the href before the tests of
\* the title
is_likely_chapter_link_path_first(raw_title, href) ==
    LET title == Strip(raw_title)
    IN  IF HasNumericPath(href) THEN <<TRUE, "numeric_path">>
        ELSE IF \E w \in BlockWords : Contains(title, w) THEN <<FALSE, "blocklist">>
        ELSE IF Len(title) < 2 THEN <<FALSE, "too_short">>
        ELSE IF HasMarker(title) THEN <<TRUE, "ordinal_marker">>
        ELSE IF LeadsWithNumber(title) THEN <<TRUE, "leading_number">>
        ELSE IF \E w \in SpecialNames : Contains(title, w)
             THEN <<TRUE, "special_section">>
        ELSE <<FALSE, "no_match">>

\* lines 735-761: the verdict and its reason
is_likely_chapter_link(raw_title, href) ==
    LET title == Strip(raw_title)
    IN  IF \E w \in BlockWords : Contains(title, w) THEN <<FALSE, "blocklist">>
        ELSE IF Len(title) < 2 THEN <<FALSE, "too_short">>
        ELSE IF HasMarker(title) THEN <<TRUE, "ordinal_marker">>
        ELSE IF LeadsWithNumber(title) THEN <<TRUE, "leading_number">>
        ELSE IF \E w \in SpecialNames : Contains(title, w)
             THEN <<TRUE, "special_section">>
        ELSE IF HasNumericPath(href) THEN <<TRUE, "numeric_path">>
        ELSE <<FALSE, "no_match">>

\* is_directory_page that takes every url for a chapter page
is_directory_page_never(url) == FALSE

\* is_directory_page
is_directory_page(url) ==
    IF EndsWith(url, <<"/">>) \/ ~EndsWith(url, <<".html">>) THEN TRUE
    ELSE IF url_num_of(url) # None THEN FALSE
    ELSE TRUE

\* ------------------------------------------------------------------------
\* State
\* ------------------------------------------------------------------------

VARIABLES
    \* the Ordering Engine called on its own
    cands,          \* the list handed to the Ordering Engine
    ordered,        \* what the last call returned
    prevOrdered,    \* what the call before it returned
    lastOp,         \* the last call made
    \* one run of crawl_multiple_chapters
    args,           \* url, num_chapters, is_chapter, resume, concurrency
    progress_file,  \* progress.json
    next_url_of,    \* the next_url of the record of a page, once it was read
    pc,             \* where the run is
    chapters_data,  \* the accumulated records
    last_url,       \* last_url of the loaded snapshot
    novel_info,     \* what crawl_index_page returned
    total_chapters, \* the chapter list the run works from
    crawled_urls,   \* the urls of the accumulated records
    tasks,          \* the workers handed to asyncio.gather
    semaphore,      \* the free slots of asyncio.Semaphore(concurrency)
    current_url,    \* the walk's position
    count,          \* chapters the walk has acquired
    save_result,    \* how the last save_progress ended
    merged,         \* the chapters in the order merge_chapters wrote them
    fetch_log,      \* calls of crawl_chapter so far, per caller and url
    loaded,         \* the records read from progress.json
    \* is_likely_chapter_link called on its own
    link,           \* the title and href it is called with
    verdict,        \* what it returned
    \* one call of crawl_index_page
    page,           \* the page at the url: its region and its links
    all_chapters,   \* the chapter links collected so far
    ipc,            \* where the call is
    index_result,   \* what the call returned
    \* one call of crawl_chapter
    content,        \* the text extracted from the page (lines 448-470)
    cpc,            \* where the call is
    chapter_data    \* what the call returned

orderVars == <<cands, ordered, prevOrdered, lastOp>>

runVars ==
    <<args, progress_file, next_url_of, pc, chapters_data, last_url, novel_info,
      total_chapters, crawled_urls, tasks, semaphore, current_url, count,
      save_result, merged, fetch_log, loaded>>

indexVars == <<link, verdict, page, all_chapters, ipc, index_result>>

chapterVars == <<content, cpc, chapter_data>>

vars == <<orderVars, runVars, indexVars, chapterVars>>

\* ------------------------------------------------------------------------
\* The Ordering Engine as a state machine
\* ------------------------------------------------------------------------

\* no progress.json
NoFile == [exists |-> FALSE, chapters |-> <<>>, last_url |-> NoUrl]

\* novel_info = None
NotResolved == [ok |-> FALSE, chapters |-> <<>>]

\* a next_url that was not read yet
Unread == <<"?">>

FetchKinds == {"boot", "worker", "walk"}

\* no link, no page
NoLink == [title |-> <<>>, href |-> <<>>]

NoPage == [has_region |-> FALSE, region |-> <<>>, others |-> <<>>]

\* is_likely_chapter_link was not called
NoVerdict == <<>>

NoCall ==
    /\ link = NoLink
    /\ verdict = NoVerdict
    /\ page = NoPage
    /\ all_chapters = <<>>
    /\ ipc = "idle"
    /\ index_result = NotResolved

\* crawl_chapter returned None
NoChapter == [ok |-> FALSE, content |-> <<>>]

NoFetch ==
    /\ content = <<>>
    /\ cpc = "idle"
    /\ chapter_data = NoChapter

NoRun ==
    /\ args = [url |-> ListingUrl, num_chapters |-> 0, is_chapter |-> FALSE,
               resume |-> FALSE, concurrency |-> 1]
    /\ progress_file = NoFile
    /\ next_url_of = [u \in SiteUrls |-> Unread]
    /\ pc = "idle"
    /\ chapters_data = <<>>
    /\ last_url = NoUrl
    /\ novel_info = NotResolved
    /\ total_chapters = <<>>
    /\ crawled_urls = {}
    /\ tasks = <<>>
    /\ semaphore = 0
    /\ current_url = NoUrl
    /\ count = 0
    /\ save_result = "none"
    /\ merged = <<>>
    /\ fetch_log = [k \in FetchKinds \X SiteUrls |-> 0]
    /\ loaded = <<>>

OrderInit ==
    /\ cands \in SeqsUpTo(Candidates, MaxLen)
    /\ ordered = <<>>
    /\ prevOrdered = <<>>
    /\ lastOp = "input"
    /\ NoRun
    /\ NoFetch
    /\ NoCall

\* sorted_chapters = process_and_sort_chapters(chapters)
Order ==
    /\ lastOp = "input"
    /\ ordered' = process_and_sort_chapters(cands)
    /\ lastOp' = "ordered"
    /\ UNCHANGED <<cands, prevOrdered, runVars, indexVars, chapterVars>>

Swap(s, i) ==
    [k \in 1..Len(s) |-> IF k = i THEN s[i + 1] ELSE IF k = i + 1 THEN s[i] ELSE s[k]]

\* the same candidates handed over in another order
Permute ==
    /\ lastOp = "ordered"
    /\ \E i \in 1..(Len(cands) - 1) :
          /\ cands' = Swap(cands, i)
          /\ ordered' = process_and_sort_chapters(cands')
    /\ prevOrdered' = ordered
    /\ lastOp' = "permuted"
    /\ UNCHANGED <<runVars, indexVars, chapterVars>>

\* the result handed to the Ordering Engine again (crawl_index_page's
\* result is sorted again by crawl_multiple_chapters, line 1007)
Reorder ==
    /\ lastOp = "ordered"
    /\ cands' = ordered
    /\ ordered' = process_and_sort_chapters(ordered)
    /\ prevOrdered' = ordered
    /\ lastOp' = "reordered"
    /\ UNCHANGED <<runVars, indexVars, chapterVars>>

\* crawl_index_page, step 7: de-duplicate by url, then sort
Resolve ==
    /\ lastOp = "input"
    /\ ordered' = process_and_sort_chapters(unique_chapters(cands))
    /\ lastOp' = "resolved"
    /\ UNCHANGED <<cands, prevOrdered, runVars, indexVars, chapterVars>>

OrderNext == Order \/ Permute \/ Reorder \/ Resolve

OrderSpec == OrderInit /\ [][OrderNext]_vars

\* ------------------------------------------------------------------------
\* crawl_multiple_chapters: start of a run
\* ------------------------------------------------------------------------

\* the number the walk takes for "no limit"
WalkLimit == 999

\* the elements of a set of numbers in ascending order
Ascending(S) ==
    [r \in 1..Cardinality(S) |->
        CHOOSE x \in S : Cardinality({y \in S : y < x}) = r - 1]

\* a snapshot an earlier run wrote: the records of the chapters in S, each
\* with its index, and the url of the last one
SnapshotOf(S) ==
    LET order == Ascending(S)
        recs == [k \in 1..Len(order) |->
                    [title |-> TitleOf(ChapterUrl(order[k])),
                     url |-> ChapterUrl(order[k]),
                     src |-> "snapshot",
                     index |-> k - 1]]
    IN  [exists |-> TRUE, chapters |-> recs, last_url |-> recs[Len(recs)].url]

Snapshots == {SnapshotOf(S) : S \in (SUBSET (1..NumChapters)) \ {{}}}

\* the chapter pages a run may be started from
EntryChapters == {1, 2}

RunArgs ==
    [url : {ListingUrl}, num_chapters : 0..MaxBudget, is_chapter : {FALSE},
     resume : BOOLEAN, concurrency : 1..MaxConcurrency]
    \cup
    [url : {ChapterUrl(e) : e \in EntryChapters}, num_chapters : 0..MaxBudget,
     is_chapter : {TRUE}, resume : BOOLEAN, concurrency : 1..MaxConcurrency]

Init ==
    /\ cands = <<>>
    /\ ordered = <<>>
    /\ prevOrdered = <<>>
    /\ lastOp = "none"
    /\ NoCall
    /\ NoFetch
    /\ args \in RunArgs
    /\ progress_file \in (IF args.resume THEN Snapshots \cup {NoFile} ELSE {NoFile})
    /\ next_url_of = [u \in SiteUrls |-> Unread]
    /\ pc = "start"
    /\ chapters_data = <<>>
    /\ last_url = NoUrl
    /\ novel_info = NotResolved
    /\ total_chapters = <<>>
    /\ crawled_urls = {}
    /\ tasks = <<>>
    /\ semaphore = 0
    /\ current_url = NoUrl
    /\ count = 0
    /\ save_result = "none"
    /\ merged = <<>>
    /\ fetch_log = [k \in FetchKinds \X SiteUrls |-> 0]
    /\ loaded = <<>>

\* loaded_chapters.sort(key=lambda x: x.get('index', 9999)): a stable sort
sort_by_index(chapters) ==
    LET n == Len(chapters)
        rank == [i \in 1..n |->
                    1 + Cardinality({j \in 1..n :
                            \/ chapters[j].index < chapters[i].index
                            \/ chapters[j].index = chapters[i].index /\ j < i})]
    IN  [r \in 1..n |-> chapters[CHOOSE i \in 1..n : rank[i] = r]]

\* lines 966-993: read progress.json when resume is asked for and the file
\* exists; a read that raises leaves chapters_data empty
Load ==
    /\ pc = "start"
    /\ IF args.resume /\ progress_file.exists
       THEN \E read_ok \in BOOLEAN :
               IF read_ok
               THEN /\ chapters_data' = sort_by_index(progress_file.chapters)
                    /\ last_url' = progress_file.last_url
               ELSE /\ chapters_data' = <<>>
                    /\ last_url' = NoUrl
       ELSE UNCHANGED <<chapters_data, last_url>>
    /\ loaded' = chapters_data'
    /\ pc' = "boot"
    /\ UNCHANGED <<orderVars, indexVars, chapterVars, args, progress_file, next_url_of, novel_info,
                   total_chapters, crawled_urls, tasks, semaphore, current_url,
                   count, save_result, merged, fetch_log>>

\* the links a listing page shows: none, or every chapter, the newest first,
\* and the newest once more
ListingLinks ==
    [k \in 1..(NumChapters + 1) |->
        Candidate(ChapterUrl(IF k <= NumChapters THEN NumChapters + 1 - k
                             ELSE NumChapters))]

PageListings == {<<>>, ListingLinks}

\* crawl_index_page: None when it raised, else the de-duplicated and sorted
\* chapters of the page
IndexResults(listings) ==
    {NotResolved}
    \cup {[ok |-> TRUE,
           chapters |-> process_and_sort_chapters(unique_chapters(links))] :
          links \in listings}

Logged(kind, u) ==
    IF <<kind, u>> \in DOMAIN fetch_log
    THEN [fetch_log EXCEPT ![<<kind, u>>] = @ + 1]
    ELSE (<<kind, u>> :> 1) @@ fetch_log

\* the calls of crawl_chapter for u by kind so far
Fetches(kind, u) ==
    IF <<kind, u>> \in DOMAIN fetch_log THEN fetch_log[<<kind, u>>] ELSE 0

\* lines 1001-1009: the entry is a listing page
BootIndex ==
    /\ pc = "boot"
    /\ ~args.is_chapter
    /\ \E res \in IndexResults(PageListings) :
          /\ novel_info' = res
          /\ total_chapters' =
                IF res.ok THEN process_and_sort_chapters(res.chapters) ELSE <<>>
    /\ pc' = "dispatch"
    /\ UNCHANGED <<orderVars, indexVars, chapterVars, args, progress_file, next_url_of, chapters_data,
                   last_url, crawled_urls, tasks, semaphore, current_url, count,
                   save_result, merged, fetch_log, loaded>>

\* lines 1031-1042: cut the list before the entry chapter
from_entry(chapters, entry) ==
    LET hits == {i \in 1..Len(chapters) : chapters[i].url = entry}
        start_index == IF hits = {} THEN 0 ELSE Min(hits) - 1
    IN  IF start_index > 0
        THEN SubSeq(chapters, start_index + 1, Len(chapters))
        ELSE chapters

\* lines 1012-1051: the entry is a chapter page
BootChapter ==
    /\ pc = "boot"
    /\ args.is_chapter
    /\ fetch_log' = Logged("boot", args.url)
    /\ \E fetch_ok \in BOOLEAN :
          IF ~fetch_ok
          THEN /\ novel_info' = NotResolved
               /\ total_chapters' = <<>>
          ELSE \E index_url \in {NoUrl, ListingUrl} :
               \E res \in (IF index_url # NoUrl THEN IndexResults(PageListings)
                          ELSE {NotResolved}) :
                  LET listed == IF res.ok
                                THEN from_entry(process_and_sort_chapters(res.chapters),
                                                args.url)
                                ELSE <<>>
                  IN  /\ novel_info' = res
                      /\ total_chapters' =
                            IF listed = <<>>
                            THEN <<[title |-> TitleOf(args.url), url |-> args.url]>>
                            ELSE listed
    /\ pc' = "dispatch"
    /\ UNCHANGED <<orderVars, indexVars, chapterVars, args, progress_file, next_url_of, chapters_data,
                   last_url, crawled_urls, tasks, semaphore, current_url, count,
                   save_result, merged, loaded>>

\* a set of crawled urls that is always empty
UrlsOf_none(chapters) == {}

\* {chapter.get('url', '') for chapter in chapters_data}
UrlsOf(chapters) == {chapters[k].url : k \in 1..Len(chapters)}

\* line 1069
chapters_to_crawl ==
    IF args.num_chapters > 0
    THEN Min({args.num_chapters, Len(total_chapters)})
    ELSE Len(total_chapters)

\* the elements of s whose url is not in seen, in their order
RECURSIVE SelectUrlsNotIn(_, _)
SelectUrlsNotIn(s, seen) ==
    IF Len(s) = 0 THEN <<>>
    ELSE LET rest == SelectUrlsNotIn(SubSeq(s, 1, Len(s) - 1), seen)
         IN  IF s[Len(s)].url \in seen THEN rest ELSE Append(rest, s[Len(s)])

\* new_tasks without the test of line 1107
new_tasks_unfiltered(chapters, seen) ==
    LET todo == SubSeq(chapters, 1, chapters_to_crawl)
    IN  [k \in 1..Len(todo) |-> [url |-> todo[k].url, st |-> "queued"]]

\* lines 1104-1108: one worker per chapter of the budget that is not crawled
new_tasks(chapters, seen) ==
    LET todo == SelectUrlsNotIn(SubSeq(chapters, 1, chapters_to_crawl), seen)
    IN  [k \in 1..Len(todo) |-> [url |-> todo[k].url, st |-> "queued"]]

\* lines 1054-1151: up to asyncio.gather with a chapter list, up to the
\* loop without one
Dispatch ==
    /\ pc = "dispatch"
    /\ crawled_urls' = UrlsOf(chapters_data)
    /\ semaphore' = args.concurrency
    /\ IF total_chapters # <<>>
       THEN /\ tasks' = new_tasks(total_chapters, crawled_urls')
            /\ pc' = "gather"
            /\ UNCHANGED <<current_url, count>>
       ELSE /\ current_url' = IF last_url # NoUrl /\ args.resume
                              THEN last_url ELSE args.url
            /\ count' = 0
            /\ pc' = "walk"
            /\ UNCHANGED tasks
    /\ UNCHANGED <<orderVars, indexVars, chapterVars, args, progress_file, next_url_of, chapters_data,
                   last_url, novel_info, total_chapters, save_result, merged,
                   fetch_log, loaded>>

\* ------------------------------------------------------------------------
\* save_progress
\* ------------------------------------------------------------------------

\* with_index counting from one
with_index_from_one(chapters) ==
    [k \in 1..Len(chapters) |-> [chapters[k] EXCEPT !.index = k]]

\* lines 207-209: every chapter gets its position as index
with_index(chapters) ==
    [k \in 1..Len(chapters) |-> [chapters[k] EXCEPT !.index = k - 1]]

\* save_progress ends well ("ok"), or raises before the indices are set
\* ("dir_error", os.makedirs) or when the file is opened ("write_error")
SaveOutcomes == {"ok", "dir_error", "write_error"}

\* save_progress that drops the records when it cannot write
SaveProgress_losing(chapters, last, outcome) ==
    /\ chapters_data' = IF outcome = "ok" THEN with_index(chapters) ELSE <<>>
    /\ progress_file' = IF outcome = "ok"
                        THEN [exists |-> TRUE, chapters |-> with_index(chapters),
                              last_url |-> last]
                        ELSE progress_file
    /\ save_result' = outcome

\* save_progress(output_dir, novel_name, author, chapters, last)
SaveProgress(chapters, last, outcome) ==
    /\ chapters_data' = IF outcome = "dir_error" THEN chapters
                        ELSE with_index(chapters)
    /\ progress_file' = IF outcome = "ok"
                        THEN [exists |-> TRUE, chapters |-> with_index(chapters),
                              last_url |-> last]
                        ELSE progress_file
    /\ save_result' = outcome

\* ------------------------------------------------------------------------
\* crawl_multiple_chapters with a chapter list: the workers
\* ------------------------------------------------------------------------

\* what crawl_chapter returns for a page it could fetch and extract
Record(u) == [title |-> TitleOf(u), url |-> u, src |-> "fetched", index |-> None]

\* a limiter that lets every worker in
CanAcquireAlways == TRUE

\* async with semaphore: a free slot is needed
CanAcquire == semaphore > 0

\* lines 1083-1092: a worker enters the limiter and calls crawl_chapter,
\* unless its chapter is crawled already
Acquire(k) ==
    /\ pc = "gather"
    /\ tasks[k].st = "queued"
    /\ CanAcquire
    /\ IF tasks[k].url \in crawled_urls
       THEN /\ tasks' = [tasks EXCEPT ![k].st = "returned_none"]
            /\ UNCHANGED <<semaphore, fetch_log>>
       ELSE /\ tasks' = [tasks EXCEPT ![k].st = "fetching"]
            /\ semaphore' = semaphore - 1
            /\ fetch_log' = Logged("worker", tasks[k].url)
    /\ UNCHANGED <<orderVars, indexVars, chapterVars, args, progress_file, next_url_of, pc, chapters_data,
                   last_url, novel_info, total_chapters, crawled_urls,
                   current_url, count, save_result, merged, loaded>>

\* lines 1093-1096: crawl_chapter returned a record; the worker returns it
FetchOk(k) ==
    /\ pc = "gather"
    /\ tasks[k].st = "fetching"
    /\ tasks' = [tasks EXCEPT ![k].st = "returned_record"]
    /\ semaphore' = semaphore + 1
    /\ UNCHANGED <<orderVars, indexVars, chapterVars, args, progress_file, next_url_of, pc, chapters_data,
                   last_url, novel_info, total_chapters, crawled_urls,
                   current_url, count, save_result, merged, fetch_log, loaded>>

\* lines 1098-1101: crawl_chapter returned None; the worker sleeps inside the
\* limiter
FetchFail(k) ==
    /\ pc = "gather"
    /\ tasks[k].st = "fetching"
    /\ tasks' = [tasks EXCEPT ![k].st = "pausing"]
    /\ UNCHANGED <<orderVars, indexVars, chapterVars, args, progress_file, next_url_of, pc, chapters_data,
                   last_url, novel_info, total_chapters, crawled_urls, semaphore,
                   current_url, count, save_result, merged, fetch_log, loaded>>

\* line 1102: the sleep is over; the worker returns None
PauseDone(k) ==
    /\ pc = "gather"
    /\ tasks[k].st = "pausing"
    /\ tasks' = [tasks EXCEPT ![k].st = "returned_none"]
    /\ semaphore' = semaphore + 1
    /\ UNCHANGED <<orderVars, indexVars, chapterVars, args, progress_file, next_url_of, pc, chapters_data,
                   last_url, novel_info, total_chapters, crawled_urls,
                   current_url, count, save_result, merged, fetch_log, loaded>>

\* results_of with a record for every task, failed or not
results_of_every_task(ts) == [k \in 1..Len(ts) |-> Record(ts[k].url)]

\* the records among the results of asyncio.gather, in the order of the tasks
RECURSIVE results_of(_)
results_of(ts) ==
    IF Len(ts) = 0 THEN <<>>
    ELSE LET rest == results_of(SubSeq(ts, 1, Len(ts) - 1))
         IN  IF ts[Len(ts)].st = "returned_record"
             THEN Append(rest, Record(ts[Len(ts)].url))
             ELSE rest

\* lines 1114-1128: every worker has returned; the records are appended and
\* the final progress is saved
Gathered ==
    /\ pc = "gather"
    /\ \A k \in 1..Len(tasks) : tasks[k].st \in {"returned_record", "returned_none"}
    /\ crawled_urls' = crawled_urls \cup UrlsOf(results_of(tasks))
    /\ \E outcome \in SaveOutcomes :
          SaveProgress(chapters_data \o results_of(tasks),
                       total_chapters[Len(total_chapters)].url, outcome)
    /\ pc' = "merge"
    /\ UNCHANGED <<orderVars, indexVars, chapterVars, args, next_url_of, last_url, novel_info,
                   total_chapters, tasks, semaphore, current_url, count, merged,
                   fetch_log, loaded>>

\* ------------------------------------------------------------------------
\* crawl_multiple_chapters without a chapter list: the walk
\* ------------------------------------------------------------------------

\* line 1136
walk_budget == IF args.num_chapters > 0 THEN args.num_chapters ELSE WalkLimit

\* the number of a chapter page; 0 for the listing page
ChapterNo(u) == IF u = ListingUrl THEN 0 ELSE DigitVal(u[2])

\* the references a page of the site may show as its next chapter: none, the
\* listing page, itself, any earlier chapter, or the chapter that follows
SiteNextUrls(u) ==
    {NoUrl, ListingUrl}
    \cup {ChapterUrl(j) : j \in 1..Min({ChapterNo(u) + 1, NumChapters})}

\* the number of pages of the chain
ChainLen == 1001

\* the decimal digits of n
RECURSIVE DigitsOf(_)
DigitsOf(n) ==
    IF n < 10 THEN <<DigitChars[n + 1]>>
    ELSE Append(DigitsOf(n \div 10), DigitChars[(n % 10) + 1])

\* page i of the chain is /i.html
ChainUrl(i) == <<"/">> \o DigitsOf(i) \o <<".html">>

\* the next_url of a page of the chain is the page after it; the last page
\* has none
ChainNext(u) ==
    LET i == ParseInt(SubSeq(u, 2, Len(u) - 1))
    IN  IF i < ChainLen THEN ChainUrl(i + 1) ELSE NoUrl

\* the next_url a record of page u holds. On the site of NumChapters pages
\* (the domain of next_url_of) it is chosen when the page is first read and
\* is the same whenever it is read again; a page outside it is a page of the
\* chain
NextUrls(u) ==
    IF u \notin DOMAIN next_url_of THEN {ChainNext(u)}
    ELSE IF next_url_of[u] = Unread THEN SiteNextUrls(u)
    ELSE {next_url_of[u]}

\* next_url_of once the next_url of page u was read as n
Read(u, n) ==
    IF u \in DOMAIN next_url_of THEN [next_url_of EXCEPT ![u] = n] ELSE next_url_of

\* the next_url that was read from page u
NextOf(u) == IF u \in DOMAIN next_url_of THEN next_url_of[u] ELSE ChainNext(u)

\* line 1154: the budget is used up
WalkBudget ==
    /\ pc = "walk"
    /\ ~(count < walk_budget)
    /\ pc' = "walk_end"
    /\ UNCHANGED <<orderVars, indexVars, chapterVars, args, progress_file, next_url_of, chapters_data,
                   last_url, novel_info, total_chapters, crawled_urls, tasks,
                   semaphore, current_url, count, save_result, merged, fetch_log,
                   loaded>>

\* lines 1156-1163: the page is crawled already; go on to its next_url
WalkSkip ==
    /\ pc = "walk"
    /\ count < walk_budget
    /\ current_url \in crawled_urls
    /\ \E next_url \in NextUrls(current_url) :
          /\ next_url_of' = Read(current_url, next_url)
          /\ IF next_url # NoUrl /\ next_url # current_url
             THEN current_url' = next_url /\ pc' = "walk"
             ELSE current_url' = current_url /\ pc' = "walk_end"
    /\ UNCHANGED <<orderVars, indexVars, chapterVars, args, progress_file, chapters_data, last_url,
                   novel_info, total_chapters, crawled_urls, tasks, semaphore,
                   count, save_result, merged, fetch_log, loaded>>

\* lines 1165-1204: fetch the page, keep its record, save every third one and
\* follow its next_url; outcomes are the ways save_progress may end
WalkFetchWith(outcomes) ==
    /\ pc = "walk"
    /\ count < walk_budget
    /\ current_url \notin crawled_urls
    /\ fetch_log' = Logged("walk", current_url)
    /\ \E fetch_ok \in BOOLEAN :
          IF ~fetch_ok
          THEN /\ pc' = "walk_end"
               /\ UNCHANGED <<chapters_data, crawled_urls, count, progress_file,
                              save_result, next_url_of, current_url>>
          ELSE \E next_url \in NextUrls(current_url) :
                  /\ next_url_of' = Read(current_url, next_url)
                  /\ crawled_urls' = crawled_urls \cup {current_url}
                  /\ count' = count + 1
                  /\ IF count' % 3 = 0
                     THEN \E outcome \in outcomes :
                             SaveProgress(Append(chapters_data, Record(current_url)),
                                          current_url, outcome)
                     ELSE /\ chapters_data' = Append(chapters_data, Record(current_url))
                          /\ UNCHANGED <<progress_file, save_result>>
                  /\ IF next_url = NoUrl \/ next_url = current_url
                        \/ is_directory_page(next_url)
                     THEN current_url' = current_url /\ pc' = "walk_end"
                     ELSE current_url' = next_url /\ pc' = "walk"
    /\ UNCHANGED <<orderVars, indexVars, chapterVars, args, last_url, novel_info, total_chapters, tasks,
                   semaphore, merged, loaded>>

WalkFetch == WalkFetchWith(SaveOutcomes)

\* lines 1206-1211: the final progress of the walk
WalkEnd ==
    /\ pc = "walk_end"
    /\ \E outcome \in SaveOutcomes :
          SaveProgress(chapters_data, current_url, outcome)
    /\ pc' = "merge"
    /\ UNCHANGED <<orderVars, indexVars, chapterVars, args, next_url_of, last_url, novel_info,
                   total_chapters, crawled_urls, tasks, semaphore, current_url,
                   count, merged, fetch_log, loaded>>

\* ------------------------------------------------------------------------
\* crawl_multiple_chapters: the end of a run
\* ------------------------------------------------------------------------

\* the end of a run without the two sorts
Merge_unsorted ==
    /\ pc = "merge"
    /\ merged' = chapters_data
    /\ pc' = "done"
    /\ UNCHANGED <<orderVars, indexVars, chapterVars, args, progress_file, next_url_of, chapters_data,
                   last_url, novel_info, total_chapters, crawled_urls, tasks,
                   semaphore, current_url, count, save_result, fetch_log, loaded>>

\* lines 1213-1223: the records are sorted and handed to merge_chapters,
\* which sorts them again (line 245) and writes them
Merge ==
    /\ pc = "merge"
    /\ merged' = IF chapters_data # <<>>
                 THEN process_and_sort_chapters(process_and_sort_chapters(chapters_data))
                 ELSE <<>>
    /\ pc' = "done"
    /\ UNCHANGED <<orderVars, indexVars, chapterVars, args, progress_file, next_url_of, chapters_data,
                   last_url, novel_info, total_chapters, crawled_urls, tasks,
                   semaphore, current_url, count, save_result, fetch_log, loaded>>

Worker == \E k \in 1..Len(tasks) : Acquire(k) \/ FetchOk(k) \/ FetchFail(k) \/ PauseDone(k)

Next ==
    \/ Load
    \/ BootIndex
    \/ BootChapter
    \/ Dispatch
    \/ Worker
    \/ Gathered
    \/ WalkBudget
    \/ WalkSkip
    \/ WalkFetch
    \/ WalkEnd
    \/ Merge

Spec == Init /\ [][Next]_vars

\* the steps of the walk and of the end of a run
WalkStep == WalkBudget \/ WalkSkip \/ WalkFetch

\* the walk is one coroutine that the event loop keeps running: it goes on
\* whenever it can take a step, and every fetch and sleep in it ends
FairSpec == Spec /\ WF_vars(WalkStep)

\* ------------------------------------------------------------------------
\* Properties of a run (Spec, FairSpec)
\* ------------------------------------------------------------------------

\* the three chapters refer to each other in a circle, and each has a record
ThreeCycle ==
    /\ next_url_of[ChapterUrl(1)] = ChapterUrl(2)
    /\ next_url_of[ChapterUrl(2)] = ChapterUrl(3)
    /\ next_url_of[ChapterUrl(3)] = ChapterUrl(1)
    /\ {ChapterUrl(1), ChapterUrl(2), ChapterUrl(3)} \subseteq crawled_urls

\* C1: a walk over chapters A -> B -> C -> A comes to its end once C is
\* processed and the next reference leads back to A, for every budget.
C1_CycleWalkTerminates ==
    (pc = "walk" /\ ThreeCycle) ~> (pc # "walk")

\* C2: a run whose bootstrapping obtained no non-empty index goes on as a
\* walk along the next references, never with a chapter list and workers.
C2_NoIndexMeansLinkedList ==
    (pc \in {"gather", "walk", "walk_end"} /\ novel_info.chapters = <<>>)
    => pc \in {"walk", "walk_end"}

\* the workers that hold a slot of the limiter: fetching, or sleeping after a
\* failed fetch
InFlight == {k \in 1..Len(tasks) : tasks[k].st \in {"fetching", "pausing"}}

\* C3: with a chapter list, at most args.concurrency fetches (a failed
\* worker's sleep counted as one) are in flight in every reachable state.
C3_AtMostKInFlight ==
    Cardinality(InFlight) <= args.concurrency

\* the limiter is full, one of its holders sleeps after a failed fetch, and a
\* further worker waits
C3_Witness ==
    /\ pc = "gather"
    /\ Cardinality(InFlight) = args.concurrency
    /\ \E k \in 1..Len(tasks) : tasks[k].st = "pausing"
    /\ \E k \in 1..Len(tasks) : tasks[k].st = "queued"

\* the number of listed chapters the budget admits
Budgeted ==
    IF args.num_chapters = 0 \/ args.num_chapters > Len(total_chapters)
    THEN Len(total_chapters)
    ELSE args.num_chapters

\* the tasks are the budgeted listed chapters whose url is not in seen, in
\* the order of the list
WorkSetIs(seen) ==
    /\ {tasks[k].url : k \in 1..Len(tasks)}
          = {total_chapters[i].url : i \in 1..Budgeted} \ seen
    /\ \A a, b \in 1..Len(tasks) :
          a < b => \E i, j \in 1..Budgeted :
                      /\ i < j
                      /\ total_chapters[i].url = tasks[a].url
                      /\ total_chapters[j].url = tasks[b].url

ResumedWithList ==
    args.resume /\ total_chapters # <<>> /\ pc \in {"gather", "merge", "done"}

ExactlyIndexed(recs, urls, n) ==
    /\ Len(recs) = n
    /\ Cardinality(urls) = n
    /\ UrlsOf(recs) = urls
    /\ {recs[k].index : k \in 1..Len(recs)} = 0..(n - 1)

\* a resumed run with a chapter list and no budget has ended, every worker
\* returned a record and the final snapshot was written
ResumedRunComplete ==
    /\ pc = "done"
    /\ args.resume
    /\ args.num_chapters = 0
    /\ total_chapters # <<>>
    /\ \A k \in 1..Len(tasks) : tasks[k].st = "returned_record"
    /\ save_result = "ok"

\* C5 as stated: when the snapshot's locations are among the n candidates the
\* index resolved, the final snapshot and the merged output hold exactly n
\* records, one per resolved location, with the indices 0..n-1.
C5_OneRecordPerResolved ==
    (/\ ResumedRunComplete
     /\ novel_info.chapters # <<>>
     /\ UrlsOf(loaded) \subseteq UrlsOf(novel_info.chapters))
    => /\ ExactlyIndexed(progress_file.chapters, UrlsOf(novel_info.chapters),
                         Len(novel_info.chapters))
       /\ ExactlyIndexed(merged, UrlsOf(novel_info.chapters),
                         Len(novel_info.chapters))

\* C5 as amended: n counts the chapters the run works from, which is the
\* resolved list cut before the entry chapter when the run was started from
\* a chapter page; when the snapshot's locations are among these n, the final
\* snapshot, once written, and the merged output hold exactly n records, one
\* per location of the list, with the indices 0..n-1.
C5_OneRecordPerListed ==
    (/\ ResumedRunComplete
     /\ UrlsOf(loaded) \subseteq UrlsOf(total_chapters))
    => /\ ExactlyIndexed(progress_file.chapters, UrlsOf(total_chapters),
                         Len(total_chapters))
       /\ ExactlyIndexed(merged, UrlsOf(total_chapters), Len(total_chapters))

\* a run started from the second chapter page and resumed from a snapshot of
\* a later chapter: the list was cut, a worker fetched the rest, and the
\* merged output is in another order than the snapshot
C5_Witness ==
    /\ ResumedRunComplete
    /\ loaded # <<>>
    /\ tasks # <<>>
    /\ UrlsOf(loaded) \subseteq UrlsOf(total_chapters)
    /\ Len(total_chapters) < Len(novel_info.chapters)
    /\ Len(merged) = Len(total_chapters)
    /\ merged # progress_file.chapters

\* ------------------------------------------------------------------------
\* Properties of the Ordering Engine (OrderSpec)
\* ------------------------------------------------------------------------

InfoOfChapter(c) == InfoTable[[title |-> c.title, url |-> c.url]]

\* the sort key of a chapter without its position in the input
EvidenceKey(c) ==
    LET x == InfoOfChapter(c)
    IN  << IF x.url_num # None THEN x.url_num ELSE AbsentKey,
           IF x.chapter_num # None THEN x.chapter_num ELSE AbsentKey,
           0 - x.priority,
           x.sequence >>

Occurrences(s, url) == Cardinality({k \in 1..Len(s) : s[k].url = url})

Sorted(op) == op \in {"ordered", "permuted", "reordered", "resolved"}

\* C6 as stated: two inputs that are permutations of one candidate set give
\* identical outputs.
C6_PermutationInvariant ==
    lastOp = "permuted" => ordered = prevOrdered

\* C6 as amended: the two outputs carry the same sequence of sort keys
\* (location ordinal, title ordinal, -priority, special sequence), and they
\* are identical when no two candidates share that key; candidates that share
\* it keep their input order.
C6_PermutationInvariantUpToTies ==
    lastOp = "permuted" =>
        /\ Len(ordered) = Len(prevOrdered)
        /\ \A k \in 1..Len(ordered) :
              EvidenceKey(ordered[k]) = EvidenceKey(prevOrdered[k])
        /\ (\A i, j \in 1..Len(cands) :
               i # j => EvidenceKey(cands[i]) # EvidenceKey(cands[j]))
           => ordered = prevOrdered
        /\ \A i, j \in 1..Len(cands) :
               (i < j /\ EvidenceKey(cands[i]) = EvidenceKey(cands[j])
                      /\ cands[i] # cands[j])
               => \E a, b \in 1..Len(ordered) :
                      a < b /\ ordered[a] = cands[i] /\ ordered[b] = cands[j]

\* a swap of two candidates with different keys that the input had in the
\* wrong order
C6_Witness ==
    /\ lastOp = "permuted"
    /\ Len(cands) = 2
    /\ EvidenceKey(cands[1]) # EvidenceKey(cands[2])
    /\ ordered = prevOrdered
    /\ ordered # cands

\* C7: order(order(x)) = order(x), element for element.
C7_Idempotent ==
    lastOp = "reordered" => ordered = prevOrdered

\* the engine was applied to its own result, which holds two different
\* candidates with the same key
C7_Witness ==
    /\ lastOp = "reordered"
    /\ Len(ordered) = 2
    /\ EvidenceKey(ordered[1]) = EvidenceKey(ordered[2])
    /\ ordered[1] # ordered[2]

\* C8 as stated: an input of process_and_sort_chapters with two entries of
\* one location gives an output with exactly one entry of that location.
C8_OrderDeduplicates ==
    lastOp = "ordered" =>
        \A i, j \in 1..Len(cands) :
            (i # j /\ cands[i].url = cands[j].url)
            => Occurrences(ordered, cands[i].url) = 1

\* C8 as amended: crawl_index_page removes the later entries of a location
\* before it sorts, so the index it returns has exactly one entry, the first
\* one, of every location found; process_and_sort_chapters itself keeps
\* every entry it is given.
C8_ResolverDeduplicates ==
    /\ lastOp = "resolved" =>
          \A i \in 1..Len(cands) :
              /\ Occurrences(ordered, cands[i].url) = 1
              /\ (\A j \in 1..(i - 1) : cands[j].url # cands[i].url)
                 => \E k \in 1..Len(ordered) : ordered[k] = cands[i]
    /\ lastOp = "ordered" =>
          /\ Len(ordered) = Len(cands)
          /\ \A i \in 1..Len(cands) :
                Occurrences(ordered, cands[i].url) = Occurrences(cands, cands[i].url)

\* two entries of one location with different titles went in, one came out
C8_Witness ==
    /\ lastOp = "resolved"
    /\ Len(cands) = 2
    /\ cands[1].url = cands[2].url
    /\ cands[1].title # cands[2].title
    /\ ordered = <<cands[1]>>

\* C9: of two candidates that both have a location ordinal, the one with the
\* smaller ordinal comes first, whatever the titles and input positions.
C9_NumericDominance ==
    Sorted(lastOp) =>
        \A a, b \in 1..Len(ordered) :
            LET x == InfoOfChapter(ordered[a])
                y == InfoOfChapter(ordered[b])
            IN  (x.url_num # None /\ y.url_num # None /\ x.url_num < y.url_num)
                => a < b

\* /3.html with no title ordinal was sorted before /5.html titled chapter one,
\* which came first in the input
C9_Witness ==
    /\ lastOp = "ordered"
    /\ Len(cands) = 2
    /\ ordered = <<cands[2], cands[1]>>
    /\ InfoOfChapter(cands[2]).url_num = 3
    /\ InfoOfChapter(cands[1]).url_num = 5
    /\ InfoOfChapter(cands[1]).chapter_num = 1
    /\ InfoOfChapter(cands[2]).chapter_num = None

\* C10: every candidate with a location ordinal, whatever its size, comes
\* before every candidate without one.
C10_AbsentOrdinalLast ==
    Sorted(lastOp) =>
        \A a, b \in 1..Len(ordered) :
            (/\ InfoOfChapter(ordered[a]).url_num # None
             /\ InfoOfChapter(ordered[b]).url_num = None)
            => a < b

\* the first chapter marker of the title holds a numeral that is not made of
\* digits only, is no single numeral and is not shi followed by a numeral
ComplexNumeral(t) ==
    \E i \in 1..Len(t) :
        /\ MarkerAt(t, i)
        /\ \A h \in 1..(i - 1) : ~MarkerAt(t, h)
        /\ LET n == RunLen(t, i + 1, InMarkerClass)
           IN  /\ n >= 2
               /\ \E k \in 1..n : ~IsDigit(t[i + k])
               /\ ~(n = 2 /\ t[i + 1] = "shi" /\ t[i + 2] \in CJKNumerals)

\* C11: a title with a complex numeral gets the title ordinal 999; among
\* candidates without a location ordinal it comes after every candidate with
\* a title ordinal in 1..998 and before every candidate without one.
C11_ComplexNumeralLateNotLast ==
    Sorted(lastOp) =>
        \A a, b \in 1..Len(ordered) :
            LET x == InfoOfChapter(ordered[a])
                y == InfoOfChapter(ordered[b])
            IN  (ComplexNumeral(Strip(ordered[a].title))
                 /\ x.url_num = None /\ y.url_num = None)
                => /\ x.chapter_num = 999
                   /\ y.chapter_num \in 1..998 => b < a
                   /\ y.chapter_num = None => a < b

\* the title with the complex numeral came last in the input and was sorted
\* before a title without ordinal; in another input it came first and was
\* sorted behind chapter 3
C11_Witness ==
    /\ lastOp = "ordered"
    /\ Len(cands) = 2
    /\ InfoOfChapter(cands[1]).url_num = None
    /\ InfoOfChapter(cands[2]).url_num = None
    /\ \/ /\ ComplexNumeral(cands[2].title)
          /\ InfoOfChapter(cands[1]).chapter_num = None
          /\ ordered = <<cands[2], cands[1]>>
       \/ /\ ComplexNumeral(cands[1].title)
          /\ InfoOfChapter(cands[2]).chapter_num = 3
          /\ ordered = <<cands[2], cands[1]>>

NoEvidence(c) ==
    InfoOfChapter(c).url_num = None /\ InfoOfChapter(c).chapter_num = None

LongInit ==
    /\ cands = <<>>
    /\ ordered = <<>>
    /\ prevOrdered = <<>>
    /\ lastOp = "none"
    /\ NoCall
    /\ NoFetch
    /\ args = [url |-> ChainUrl(1), num_chapters |-> 0, is_chapter |-> FALSE,
               resume |-> FALSE, concurrency |-> 1]
    /\ progress_file = NoFile
    /\ next_url_of = <<>>
    /\ pc = "walk"
    /\ chapters_data = <<>>
    /\ last_url = NoUrl
    /\ novel_info = NotResolved
    /\ total_chapters = <<>>
    /\ crawled_urls = {}
    /\ tasks = <<>>
    /\ semaphore = 1
    /\ current_url = ChainUrl(1)
    /\ count = 0
    /\ save_result = "none"
    /\ merged = <<>>
    /\ fetch_log = <<>>
    /\ loaded = <<>>

LongNext == WalkFetchWith({"write_error"}) \/ WalkBudget \/ WalkEnd

LongSpec == LongInit /\ [][LongNext]_vars

\* the walk is over for another reason than its budget: the fetch of the
\* current page failed, or the page was crawled and its next reference is
\* none, itself or the listing page
NonBudgetStop ==
    \/ current_url \notin crawled_urls /\ Fetches("walk", current_url) >= 1
    \/ /\ current_url \in crawled_urls
       /\ NextOf(current_url) \in {NoUrl, current_url, ListingUrl}

\* C12: with num_chapters = 0 the walk has no budget: whatever the length of
\* the chain, when the walk is over it is for another reason than the budget.
C12_ZeroBudgetWalkUnbounded ==
    (args.num_chapters = 0 /\ total_chapters = <<>> /\ pc = "walk_end")
    => NonBudgetStop

\* ------------------------------------------------------------------------
\* The Link Classifier as a state machine
\* ------------------------------------------------------------------------

\* the most pieces a link text is put together from
MaxParts == 3

\* the pieces of the link texts: a word of the block list, a chapter marker,
\* "di zhang" with nothing between, a digit, a dot, a space, a letter, a
\* special name and its first character
TextParts ==
    { <<"deng", "lu">>, <<"di", "1", "zhang">>, <<"di", "zhang">>, <<"1">>,
      <<".">>, <<" ">>, <<"x">>, <<"xu", "zhang">>, <<"xu">> }

RECURSIVE Flatten(_)
Flatten(parts) ==
    IF Len(parts) = 0 THEN <<>> ELSE parts[1] \o Flatten(Tail(parts))

LinkTexts == {Flatten(ps) : ps \in SeqsUpTo(TextParts, MaxParts)}

\* /3.html, /a.html and /3
LinkHrefs == { <<"/", "3", ".html">>, <<"/", "a", ".html">>, <<"/", "3">> }

ClassifierInit ==
    /\ cands = <<>>
    /\ ordered = <<>>
    /\ prevOrdered = <<>>
    /\ lastOp = "none"
    /\ NoRun
    /\ NoFetch
    /\ link \in [title : LinkTexts, href : LinkHrefs]
    /\ verdict = NoVerdict
    /\ page = NoPage
    /\ all_chapters = <<>>
    /\ ipc = "idle"
    /\ index_result = NotResolved

\* is_chapter, reason = is_likely_chapter_link(title, href)
Classify ==
    /\ verdict = NoVerdict
    /\ link # NoLink
    /\ verdict' = is_likely_chapter_link(link.title, link.href)
    /\ UNCHANGED <<orderVars, runVars, chapterVars, link, page, all_chapters, ipc, index_result>>

ClassifierSpec == ClassifierInit /\ [][Classify]_vars

\* the features of the link the rules look at
Blocklisted == \E w \in BlockWords : Contains(Strip(link.title), w)

TooShort == Len(Strip(link.title)) < 2

\* C19: the verdict and the reason are those of the first rule that
\* matches, in the order block list, too short, chapter marker, leading
\* number, special name, numeric path, no match.
C19_FirstMatchWins ==
    verdict # NoVerdict =>
       /\ Blocklisted => verdict = <<FALSE, "blocklist">>
       /\ (~Blocklisted /\ TooShort) => verdict = <<FALSE, "too_short">>
       /\ (~Blocklisted /\ ~TooShort /\ HasMarker(Strip(link.title)))
          => verdict = <<TRUE, "ordinal_marker">>
       /\ (~Blocklisted /\ ~TooShort /\ ~HasMarker(Strip(link.title))
           /\ LeadsWithNumber(Strip(link.title)))
          => verdict = <<TRUE, "leading_number">>
       /\ (~Blocklisted /\ ~TooShort /\ ~HasMarker(Strip(link.title))
           /\ ~LeadsWithNumber(Strip(link.title))
           /\ \E w \in SpecialNames : Contains(Strip(link.title), w))
          => verdict = <<TRUE, "special_section">>
       /\ (~Blocklisted /\ ~TooShort /\ ~HasMarker(Strip(link.title))
           /\ ~LeadsWithNumber(Strip(link.title))
           /\ ~\E w \in SpecialNames : Contains(Strip(link.title), w))
          => verdict = IF HasNumericPath(link.href) THEN <<TRUE, "numeric_path">>
                       ELSE <<FALSE, "no_match">>

\* a text with a chapter marker and a word of the block list, on a link to
\* a numeric path, was rejected for the word
C19_Witness ==
    /\ verdict = <<FALSE, "blocklist">>
    /\ HasMarker(link.title)
    /\ HasNumericPath(link.href)

\* ------------------------------------------------------------------------
\* crawl_index_page as a state machine
\* ------------------------------------------------------------------------

\* line 793: the number of chapter links below which the whole page is
\* scanned
RescanBelow == 10

\* the most links of a short region
MaxRegionLinks == 2

\* the links a page is made of: the chapters of the site, a login link, a
\* link with a plain text to a numbered page, and a link named chapter one
PoolLinks ==
    {Candidate(ChapterUrl(i)) : i \in 1..NumChapters}
    \cup { [title |-> <<"deng", "lu">>, url |-> <<"/", "l", "o", "g", "i", "n">>],
           [title |-> <<"I", "n", "t", "r", "o">>, url |-> <<"/", "5", ".html">>],
           [title |-> <<"di", "yi", "zhang">>, url |-> <<"/", "5", ".html">>] }

\* a region of RescanBelow links: the chapters of the site over and over
LongRegion ==
    [k \in 1..RescanBelow |-> Candidate(ChapterUrl(((k - 1) % NumChapters) + 1))]

\* a page: whether lines 653-726 find a region in it (content_html is not
\* ""), the links of the region (a short one or the long one) and at most
\* one link outside the region
Pages ==
    [has_region : {TRUE},
     region : {LongRegion} \cup SeqsUpTo(PoolLinks, MaxRegionLinks),
     others : SeqsUpTo(PoolLinks, 1)]
    \cup [has_region : {FALSE}, region : {<<>>}, others : SeqsUpTo(PoolLinks, 1)]

\* re.findall(r'<a[^>]*href="([^"]*)"[^>]*>(.*?)</a>', html)
AllLinks(p) == p.region \o p.others

\* the links of a sequence that is_likely_chapter_link accepts and whose
\* url is not in seen, as chapters with their stripped title
RECURSIVE AcceptedNotIn(_, _)
AcceptedNotIn(links, seen) ==
    IF Len(links) = 0 THEN <<>>
    ELSE LET n == Len(links)
             l == links[n]
             rest == AcceptedNotIn(SubSeq(links, 1, n - 1), seen)
         IN  IF l.url \notin seen /\ is_likely_chapter_link(l.title, l.url)[1]
             THEN Append(rest, [title |-> Strip(l.title), url |-> l.url])
             ELSE rest

IndexInit ==
    /\ cands = <<>>
    /\ ordered = <<>>
    /\ prevOrdered = <<>>
    /\ lastOp = "none"
    /\ NoRun
    /\ NoFetch
    /\ link = NoLink
    /\ verdict = NoVerdict
    /\ page \in Pages
    /\ all_chapters = <<>>
    /\ ipc = "start"
    /\ index_result = NotResolved

\* lines 601-604: the page is fetched; a failure is caught at line 925 and
\* None is returned
IndexFetch ==
    /\ ipc = "start"
    /\ \E fetch_ok \in BOOLEAN : ipc' = IF fetch_ok THEN "region" ELSE "failed"
    /\ UNCHANGED <<orderVars, runVars, chapterVars, link, verdict, page, all_chapters, index_result>>

\* lines 728-790: with a region, is_likely_chapter_link is defined and the
\* links of the region it accepts are collected
ScanRegion ==
    /\ ipc = "region"
    /\ all_chapters' = IF page.has_region THEN AcceptedNotIn(page.region, {})
                       ELSE <<>>
    /\ ipc' = "rescan"
    /\ UNCHANGED <<orderVars, runVars, chapterVars, link, verdict, page, index_result>>

\* lines 792-818: with fewer than 10 chapters every link of the page whose
\* url was not collected is put to is_likely_chapter_link; without a region
\* that name is not bound and the first call raises, which line 925 catches
Rescan ==
    /\ ipc = "rescan"
    /\ IF Len(all_chapters) >= RescanBelow
       THEN /\ ipc' = "first"
            /\ UNCHANGED all_chapters
       ELSE IF ~page.has_region /\ AllLinks(page) # <<>>
       THEN /\ ipc' = "raised"
            /\ UNCHANGED all_chapters
       ELSE /\ all_chapters' =
                  all_chapters \o AcceptedNotIn(AllLinks(page), UrlsOf(all_chapters))
            /\ ipc' = "first"
    /\ UNCHANGED <<orderVars, runVars, chapterVars, link, verdict, page, index_result>>

\* "di yi zhang" or "di 1 zhang" in the title (lines 826, 872)
NamesChapterOne(title) ==
    Contains(title, <<"di", "yi", "zhang">>) \/ Contains(title, <<"di", "1", "zhang">>)

\* the elements of s whose title names chapter one
RECURSIVE SelectChapterOne(_)
SelectChapterOne(s) ==
    IF Len(s) = 0 THEN <<>>
    ELSE LET rest == SelectChapterOne(SubSeq(s, 1, Len(s) - 1))
         IN  IF NamesChapterOne(s[Len(s)].title) THEN Append(rest, s[Len(s)]) ELSE rest

\* lines 835-843: the links of the page whose text holds "di yi zhang" and
\* whose url was not collected
RECURSIVE RawChapterOne(_, _)
RawChapterOne(links, seen) ==
    IF Len(links) = 0 THEN <<>>
    ELSE LET n == Len(links)
             rest == RawChapterOne(SubSeq(links, 1, n - 1), seen)
         IN  IF Contains(links[n].title, <<"di", "yi", "zhang">>)
                /\ links[n].url \notin seen
             THEN Append(rest, [title |-> Strip(links[n].title), url |-> links[n].url])
             ELSE rest

\* lines 846-882: with a collected url that ends in /digits.html the urls
\* /1.html, /1000.html, ..., /1000000.html are fetched; on the site only
\* /1.html is a page, and its fetch may fail
ProbeResults(chapters) ==
    IF \E k \in 1..Len(chapters) : HasNumericPath(chapters[k].url)
    THEN {<<>>, <<Candidate(ChapterUrl(1))>>}
    ELSE {<<>>}

\* line 887: key of the sort of first_chapter_candidates
first_key(c) ==
    LET n == extract_chapter_number(c.title)
    IN  IF Truthy(n) THEN n ELSE 9999

\* lines 885-894: the candidate with the least key, the first of them, is
\* put at the head unless its url is collected already
with_first_chapter(chapters, candidates) ==
    IF candidates = <<>> THEN chapters
    ELSE LET i == CHOOSE i \in 1..Len(candidates) :
                     \A j \in 1..Len(candidates) :
                        \/ first_key(candidates[i]) < first_key(candidates[j])
                        \/ first_key(candidates[i]) = first_key(candidates[j]) /\ i <= j
         IN  IF candidates[i].url \in UrlsOf(chapters) THEN chapters
             ELSE <<candidates[i]>> \o chapters

\* lines 820-894: a chapter one is looked for among the collected chapters,
\* then in the page, then by probing urls
FirstChapter ==
    /\ ipc = "first"
    /\ LET collected == SelectChapterOne(all_chapters)
           raw == RawChapterOne(AllLinks(page), UrlsOf(all_chapters))
       IN  \E candidates \in (IF collected # <<>> THEN {collected}
                              ELSE IF raw # <<>> THEN {raw}
                              ELSE ProbeResults(all_chapters)) :
              all_chapters' = with_first_chapter(all_chapters, candidates)
    /\ ipc' = "finish"
    /\ UNCHANGED <<orderVars, runVars, chapterVars, link, verdict, page, index_result>>

\* lines 896-923: the chapters are de-duplicated by url, sorted and returned
IndexReturn ==
    /\ ipc = "finish"
    /\ index_result' =
          [ok |-> TRUE,
           chapters |-> process_and_sort_chapters(unique_chapters(all_chapters))]
    /\ ipc' = "returned"
    /\ UNCHANGED <<orderVars, runVars, chapterVars, link, verdict, page, all_chapters>>

IndexNext == IndexFetch \/ ScanRegion \/ Rescan \/ FirstChapter \/ IndexReturn

IndexSpec == IndexInit /\ [][IndexNext]_vars

\* the page was fetched and the call is over
CallOver == ipc \in {"raised", "returned"}

\* C18: when the region gave fewer than 10 chapter links, or there was no
\* region, the call returns an index, and every link of the page that
\* is_likely_chapter_link accepts is in it.
C18_RescanReturnsIndex ==
    (CallOver /\ Len(AcceptedNotIn(page.region, {})) < RescanBelow)
    => /\ ipc = "returned"
       /\ index_result.ok
       /\ UrlsOf(AcceptedNotIn(AllLinks(page), {})) \subseteq UrlsOf(index_result.chapters)

\* the same for a page with a region: the rescan of lines 792-818 works
\* where is_likely_chapter_link was defined
RescanWithRegion ==
    (CallOver /\ page.has_region
     /\ Len(AcceptedNotIn(page.region, {})) < RescanBelow)
    => /\ ipc = "returned"
       /\ index_result.ok
       /\ UrlsOf(AcceptedNotIn(AllLinks(page), {})) \subseteq UrlsOf(index_result.chapters)

\* ------------------------------------------------------------------------
\* Properties of a run: failures and the end of the walk (Spec)
\* ------------------------------------------------------------------------

\* no index was resolved and the one fetch of the entry page failed
EntryFailed ==
    /\ ~args.resume
    /\ novel_info.chapters = <<>>
    /\ total_chapters = <<>>
    /\ pc \in {"walk_end", "merge", "done"}
    /\ count = 0
    /\ fetch_log[<<"walk", args.url>>] = 1

\* C13: a run that could establish no entry mode is aborted: it does not go
\* through the final save and the end of a normal run.
C13_EntryFailureAborts ==
    EntryFailed => (save_result = "none" /\ pc \notin {"merge", "done"})

UrlSeq(chapters) == [k \in 1..Len(chapters) |-> chapters[k].url]

\* the urls of the workers that returned a record
Succeeded == {tasks[k].url : k \in {h \in 1..Len(tasks) : tasks[h].st = "returned_record"}}

\* the urls of S in the order of their page numbers
SortedUrls(S) ==
    [r \in 1..Cardinality(S) |->
        CHOOSE u \in S : Cardinality({v \in S : ChapterNo(v) < ChapterNo(u)}) = r - 1]

\* C14: with a chapter list, the order of the merged output is a function of
\* the loaded snapshot and the set of chapters fetched successfully: the
\* interleaving of the workers does not show in it.
C14_MergeOrderIndependent ==
    (pc = "done" /\ total_chapters # <<>>)
    => UrlSeq(merged) = SortedUrls(UrlsOf(loaded) \cup Succeeded)

\* two workers ran side by side next to a loaded snapshot, both returned a
\* record, and the merged output is in another order than the records were
\* accumulated
C14_Witness ==
    /\ pc = "done"
    /\ total_chapters # <<>>
    /\ args.concurrency >= 2
    /\ loaded # <<>>
    /\ Cardinality(Succeeded) >= 2
    /\ UrlSeq(merged) # UrlSeq(chapters_data)

\* C15: with a chapter list, whichever workers fail, a worker that has not
\* returned can always take its next step (it is inside the limiter, or it
\* is queued and a slot is free), and the run comes to the merge with exactly the loaded records and the
\* records of the workers that succeeded.
C15_FailuresContained ==
    /\ pc = "gather"
       => \/ \A k \in 1..Len(tasks) : tasks[k].st \in {"returned_record", "returned_none"}
          \/ \E k \in 1..Len(tasks) : tasks[k].st \in {"fetching", "pausing"}
          \/ \E k \in 1..Len(tasks) : tasks[k].st = "queued" /\ semaphore > 0
    /\ (pc \in {"merge", "done"} /\ total_chapters # <<>>)
       => /\ UrlsOf(chapters_data) = UrlsOf(loaded) \cup Succeeded
          /\ Len(chapters_data) = Len(loaded) + Cardinality(Succeeded)
    /\ (pc = "done" /\ total_chapters # <<>>)
       => /\ UrlsOf(merged) = UrlsOf(loaded) \cup Succeeded
          /\ Len(merged) = Len(chapters_data)

\* one worker failed, another returned a record, and the merged output holds
\* that record and the loaded ones
C15_Witness ==
    /\ pc = "done"
    /\ total_chapters # <<>>
    /\ loaded # <<>>
    /\ \E k \in 1..Len(tasks) : tasks[k].st = "returned_none"
    /\ Succeeded # {}
    /\ Len(merged) = Len(loaded) + Cardinality(Succeeded)

\* a step in which save_progress is called: the third, sixth, ... chapter of
\* the walk, the end of the walk, the end of asyncio.gather
SaveStep ==
    \/ pc = "walk" /\ count' # count /\ count' % 3 = 0
    \/ pc = "walk_end" /\ pc' = "merge"
    \/ pc = "gather" /\ pc' = "merge"

\* the urls of the records the step adds
AddedInStep ==
    IF pc = "walk" THEN <<current_url>>
    ELSE IF pc = "gather" THEN UrlSeq(results_of(tasks))
    ELSE <<>>

C20_StopsAreFinal ==
    [][/\ (pc = "walk" /\ fetch_log' # fetch_log
           /\ \/ count' = count
              \/ next_url_of'[current_url] \in {NoUrl, current_url, ListingUrl})
          => pc' = "walk_end"
       /\ (pc = "walk" /\ count >= walk_budget)
          => (pc' = "walk_end" /\ fetch_log' = fetch_log)
       /\ pc = "walk_end"
          => (pc' = "merge" /\ fetch_log' = fetch_log /\ save_result' \in SaveOutcomes)
       /\ pc \in {"merge", "done"} => fetch_log' = fetch_log]_vars

\* the walk fetched a chapter whose next reference is the listing page; the
\* listing page was not fetched and the final snapshot was written
C20_Witness ==
    /\ pc = "done"
    /\ total_chapters = <<>>
    /\ current_url \in ChapterUrls
    /\ next_url_of[current_url] = ListingUrl
    /\ fetch_log[<<"walk", current_url>>] = 1
    /\ fetch_log[<<"walk", ListingUrl>>] = 0
    /\ save_result = "ok"
    /\ progress_file.last_url = current_url

\* ------------------------------------------------------------------------
\* clean_content and crawl_chapter as a state machine
\* ------------------------------------------------------------------------

\* line 473: the least length of the extracted text
MinContent == 20

\* the most pieces a page text is put together from
MaxBodyParts == 3

\* Python's white space, as far as the texts of the model have it
IsWs(c) == c \in {" ", "\n"}

NotNewline(c) == c # "\n"

\* content.strip()
RECURSIVE StripWs(_)
StripWs(s) ==
    IF Len(s) = 0 THEN s
    ELSE IF IsWs(s[1]) THEN StripWs(Tail(s))
    ELSE IF IsWs(s[Len(s)]) THEN StripWs(SubSeq(s, 1, Len(s) - 1))
    ELSE s

\* "xin shu tui jian4 :" stands for the five characters that begin the
\* first of the ad_patterns (line 116)
RecommendMark == <<"xin", "shu", "tui", "jian4", ":">>

\* re.sub of the first pattern, the mark followed by .* : the mark and the
\* rest of its line are removed
RECURSIVE RemoveRecommend(_)
RemoveRecommend(t) ==
    IF Len(t) = 0 THEN t
    ELSE IF Len(t) >= 5 /\ SubSeq(t, 1, 5) = RecommendMark
    THEN RemoveRecommend(SubSeq(t, RunLen(t, 1, NotNewline) + 1, Len(t)))
    ELSE <<t[1]>> \o RemoveRecommend(Tail(t))

\* re.sub of the last pattern, \s*\n{2,}: of a run of white space that holds
\* two newlines in a row, everything up to the last such pair is removed
RECURSIVE RemoveBlankRuns(_)
RemoveBlankRuns(t) ==
    IF Len(t) = 0 THEN t
    ELSE IF IsWs(t[1])
    THEN LET k == RunLen(t, 1, IsWs)
             pairs == {q \in 1..(k - 1) : t[q] = "\n" /\ t[q + 1] = "\n"}
             kept == IF pairs = {} THEN SubSeq(t, 1, k)
                     ELSE SubSeq(t, Max(pairs) + 2, k)
         IN  kept \o RemoveBlankRuns(SubSeq(t, k + 1, Len(t)))
    ELSE <<t[1]>> \o RemoveBlankRuns(Tail(t))

\* lines 149-159: the lines are stripped, the empty ones dropped, the others
\* joined by two newlines (the re.sub of line 147 changes only the number of
\* newlines between them)
RECURSIVE FormatParagraphs(_)
FormatParagraphs(t) ==
    IF Len(t) = 0 THEN t
    ELSE LET k == RunLen(t, 1, NotNewline)
             line == Strip(SubSeq(t, 1, k))
             rest == IF k < Len(t) THEN FormatParagraphs(SubSeq(t, k + 2, Len(t)))
                     ELSE <<>>
         IN  IF line = <<>> THEN rest
             ELSE IF rest = <<>> THEN line
             ELSE line \o <<"\n", "\n">> \o rest

\* clean_content on texts of the characters "x", " ", newline and those of
\* RecommendMark: no entity, no tag and no other ad pattern occurs in them
clean_content(text) == FormatParagraphs(RemoveBlankRuns(RemoveRecommend(text)))

\* the pieces of the page texts: ten and nine letters, the mark, a newline,
\* a space
BodyParts ==
    { <<"x", "x", "x", "x", "x", "x", "x", "x", "x", "x">>,
      <<"x", "x", "x", "x", "x", "x", "x", "x", "x">>,
      RecommendMark, <<"\n">>, <<" ">> }

Bodies == {Flatten(ps) : ps \in SeqsUpTo(BodyParts, MaxBodyParts)}

ChapterInit ==
    /\ cands = <<>>
    /\ ordered = <<>>
    /\ prevOrdered = <<>>
    /\ lastOp = "none"
    /\ NoRun
    /\ NoCall
    /\ content \in Bodies
    /\ cpc = "start"
    /\ chapter_data = NoChapter

\* lines 445-470: the page is fetched and its text extracted; a failure is
\* caught at line 593 and None is returned (line 595)
ChapterFetch ==
    /\ cpc = "start"
    /\ \E fetch_ok \in BOOLEAN : cpc' = IF fetch_ok THEN "extracted" ELSE "returned"
    /\ UNCHANGED <<orderVars, runVars, indexVars, content, chapter_data>>

\* lines 473-475: no text, or fewer than MinContent characters of it: None
ChapterValidate ==
    /\ cpc = "extracted"
    /\ cpc' = IF content = <<>> \/ Len(StripWs(content)) < MinContent
              THEN "returned" ELSE "valid"
    /\ UNCHANGED <<orderVars, runVars, indexVars, content, chapter_data>>

\* lines 477-591: the text is cleaned and the record returned
ChapterEmit ==
    /\ cpc = "valid"
    /\ chapter_data' = [ok |-> TRUE, content |-> clean_content(content)]
    /\ cpc' = "returned"
    /\ UNCHANGED <<orderVars, runVars, indexVars, content>>

ChapterNext == ChapterFetch \/ ChapterValidate \/ ChapterEmit

ChapterSpec == ChapterInit /\ [][ChapterNext]_vars

\* C23: the content of a record crawl_chapter returns has at least
\* MinContent characters.
C23_EmittedBodyMeetsThreshold ==
    (cpc = "returned" /\ chapter_data.ok) => Len(chapter_data.content) >= MinContent

\* what the test of line 473 does give: the text the record was made from
\* has MinContent characters between its first and last that is not white
\* space
ExtractedTextMeetsThreshold ==
    (cpc = "returned" /\ chapter_data.ok) => Len(StripWs(content)) >= MinContent

\* ------------------------------------------------------------------------
\* Properties of a run: the snapshot and the fetches (Spec)
\* ------------------------------------------------------------------------

\* C21: in a snapshot a run with a chapter list wrote, the records taken by
\* ascending index are in the order process_and_sort_chapters gives them.
C21_IndicesFollowOrder ==
    (progress_file.exists /\ save_result = "ok" /\ total_chapters # <<>>)
    => UrlSeq(sort_by_index(progress_file.chapters))
          = UrlSeq(process_and_sort_chapters(progress_file.chapters))

\* C22: no two accumulated records have the same url, the loaded records are
\* the first of them, in their order, and the record of a url of the loaded
\* snapshot is the loaded one.
C22_LoadedRecordsKept ==
    /\ \A a, b \in 1..Len(chapters_data) :
          chapters_data[a].url = chapters_data[b].url => a = b
    /\ pc \notin {"start", "boot"} =>
          /\ Len(chapters_data) >= Len(loaded)
          /\ \A k \in 1..Len(loaded) :
                /\ chapters_data[k].url = loaded[k].url
                /\ chapters_data[k].title = loaded[k].title
                /\ chapters_data[k].src = "snapshot"
          /\ \A k \in (Len(loaded) + 1)..Len(chapters_data) :
                /\ chapters_data[k].src = "fetched"
                /\ \A h \in 1..Len(loaded) : chapters_data[k].url # loaded[h].url

\* a resumed run with a chapter list that holds a loaded url has ended with
\* loaded and fetched records
C22_Witness ==
    /\ pc = "done"
    /\ args.resume
    /\ loaded # <<>>
    /\ Len(chapters_data) > Len(loaded)
    /\ \E i \in 1..Budgeted : \E h \in 1..Len(loaded) :
          total_chapters[i].url = loaded[h].url

\* C24: crawl_chapter is called at most once for a url, whoever calls it.
C24_OneFetchPerUrl ==
    \A u \in SiteUrls :
       Fetches("boot", u) + Fetches("worker", u) + Fetches("walk", u) <= 1

\* C25: on a resumed run every record of the snapshot on disk is in the
\* snapshot that takes its place.
C25_SnapshotNeverShrinks ==
    [][(args.resume /\ progress_file.exists)
       => \A k \in 1..Len(progress_file.chapters) :
             \E h \in 1..Len(progress_file'.chapters) :
                progress_file'.chapters[h].url = progress_file.chapters[k].url]_vars

====
